---- MODULE Spec2Model ----
(***************************************************************************)
(* A model of src/main_override.py: the Plinth backend.  One SQLite table  *)
(* (users), stateless JWT tokens, the register / login / refresh / me /    *)
(* onboarding handlers and the personalized response builders.             *)
(*                                                                         *)
(* Python objects are tagged records, JSON text is a sequence of lexical   *)
(* tokens, and json.dumps / json.loads are a serializer and a recursive    *)
(* descent parser over those tokens.  Time is counted in hours.            *)
(***************************************************************************)
EXTENDS Integers, Sequences, FiniteSets, TLC

VARIABLES
    users,      \* the rows of table users (a set of records)
    now,        \* the wall clock, in hours
    ticks,      \* how many times the clock has advanced (bounded)
    uuids,      \* how many uuid4() user ids have been drawn
    issued,     \* every token handed out so far, with the user it was issued for
    regs,       \* register requests between their SELECT and their INSERT
    writes,     \* complete_onboarding requests between their checks and their commit
    last,       \* the last request and its response
    regPw,      \* history: email -> password given at the successful registration
    completed   \* history: user ids with a successful complete_onboarding

vars == <<users, now, ticks, uuids, issued, regs, writes, last, regPw, completed>>

------------------------------------------------------------------------------
(* Bounds of the model *)

MaxTicks == 2
MaxUuids == 3
MaxPairs == 2
MaxInflight == 2

(* Program constants *)

JWT_EXPIRY_HOURS == 24
REFRESH_TOKEN_EXPIRY_DAYS == 7
HoursPerDay == 24

JWT_SECRET == "dev-secret-change-me"

------------------------------------------------------------------------------
(* Python / JSON values *)

PyNone == [t |-> "null"]
PyBool(b) == [t |-> "bool", b |-> b]
PyNum(n) == [t |-> "num", n |-> n]
PyStr(s) == [t |-> "str", s |-> s]
PyList(l) == [t |-> "list", l |-> l]
PyDict(d) == [t |-> "dict", d |-> d]

EmptyList == PyList(<< >>)
EmptyDict == PyDict([k \in {} |-> PyNone])

\* bool(v)
Truthy(v) ==
    CASE v.t = "null" -> FALSE
      [] v.t = "bool" -> v.b
      [] v.t = "num"  -> v.n # 0
      [] v.t = "str"  -> v.s # ""
      [] v.t = "list" -> v.l # << >>
      [] v.t = "dict" -> DOMAIN v.d # {}

\* the order in which a dict's keys are written and iterated
KeyOrder ==
    << "positioning_target", "content_territories", "core_ideas",
       "audience_description", "voice_style", "integrity_boundaries",
       "values_protect", "completed_questionnaire", "selected_tone",
       "reviewed_brief" >>

KeysOf(d) == SelectSeq(KeyOrder, LAMBDA k : k \in DOMAIN d)

\* len(v) is defined
HasLen(v) == v.t \in {"str", "list", "dict"}

PyLen(v) ==
    CASE v.t = "str"  -> Len(v.s)
      [] v.t = "list" -> Len(v.l)
      [] v.t = "dict" -> Cardinality(DOMAIN v.d)
      [] OTHER -> 0

Min(a, b) == IF a < b THEN a ELSE b
Max(a, b) == IF a > b THEN a ELSE b

\* v[:n] is defined
CanSlice(v) == v.t \in {"str", "list"}

PySlice(v, n) ==
    CASE v.t = "str"  -> PyStr(SubSeq(v.s, 1, Min(n, Len(v.s))))
      [] v.t = "list" -> PyList(SubSeq(v.l, 1, Min(n, Len(v.l))))
      [] OTHER -> v

\* v[i] (i counted from 0) is defined
CanIndex(v, i) == v.t \in {"str", "list"} /\ i < PyLen(v)

PyIndex(v, i) ==
    CASE v.t = "str"  -> PyStr(SubSeq(v.s, i + 1, i + 1))
      [] v.t = "list" -> v.l[i + 1]
      [] OTHER -> PyNone

\* the items a for loop over a str or a list visits
Items(v) ==
    CASE v.t = "str"  -> [i \in 1..Len(v.s) |-> PyStr(SubSeq(v.s, i, i))]
      [] v.t = "list" -> v.l
      [] OTHER -> << >>

\* hash(v) is defined
Hashable(v) == v.t \notin {"list", "dict"}

\* dict.get(key, default)
Get(ob, key, default) == IF key \in DOMAIN ob.d THEN ob.d[key] ELSE default

------------------------------------------------------------------------------
(* JSON text: a sequence of lexical tokens *)

P(c) == [k |-> "p", v |-> c]
StrTok(s) == [k |-> "s", v |-> s]
NumTok(n) == [k |-> "n", n |-> n]
Lit(w) == [k |-> "lit", v |-> w]

RECURSIVE JoinTexts(_, _)
JoinTexts(texts, sep) ==
    IF texts = << >> THEN << >>
    ELSE IF Len(texts) = 1 THEN texts[1]
    ELSE texts[1] \o sep \o JoinTexts(Tail(texts), sep)

RECURSIVE json_dumps(_)
json_dumps(v) ==
    CASE v.t = "null" -> << Lit("null") >>
      [] v.t = "bool" -> << Lit(IF v.b THEN "true" ELSE "false") >>
      [] v.t = "num"  -> << NumTok(v.n) >>
      [] v.t = "str"  -> << StrTok(v.s) >>
      [] v.t = "list" ->
            << P("[") >>
            \o JoinTexts([i \in 1..Len(v.l) |-> json_dumps(v.l[i])], << P(",") >>)
            \o << P("]") >>
      [] v.t = "dict" ->
            LET ks == KeysOf(v.d) IN
            << P("{") >>
            \o JoinTexts([i \in 1..Len(ks) |->
                            << StrTok(ks[i]), P(":") >> \o json_dumps(v.d[ks[i]])],
                         << P(",") >>)
            \o << P("}") >>

ParseFail == [ok |-> FALSE]
ParseOk(v, i) == [ok |-> TRUE, v |-> v, i |-> i]

IsP(ts, i, c) == i <= Len(ts) /\ ts[i].k = "p" /\ ts[i].v = c

RECURSIVE ParseValue(_, _), ParseElements(_, _, _), ParseMembers(_, _, _)

ParseValue(ts, i) ==
    IF i > Len(ts) THEN ParseFail
    ELSE LET tk == ts[i] IN
      CASE tk.k = "s" -> ParseOk(PyStr(tk.v), i + 1)
        [] tk.k = "n" -> ParseOk(PyNum(tk.n), i + 1)
        [] tk.k = "lit" /\ tk.v = "null" -> ParseOk(PyNone, i + 1)
        [] tk.k = "lit" /\ tk.v = "true" -> ParseOk(PyBool(TRUE), i + 1)
        [] tk.k = "lit" /\ tk.v = "false" -> ParseOk(PyBool(FALSE), i + 1)
        [] tk.k = "p" /\ tk.v = "[" ->
              IF IsP(ts, i + 1, "]") THEN ParseOk(EmptyList, i + 2)
              ELSE ParseElements(ts, i + 1, << >>)
        [] tk.k = "p" /\ tk.v = "{" ->
              IF IsP(ts, i + 1, "}") THEN ParseOk(EmptyDict, i + 2)
              ELSE ParseMembers(ts, i + 1, EmptyDict.d)
        [] OTHER -> ParseFail

ParseElements(ts, i, acc) ==
    LET r == ParseValue(ts, i) IN
    IF ~r.ok THEN ParseFail
    ELSE IF IsP(ts, r.i, ",") THEN ParseElements(ts, r.i + 1, Append(acc, r.v))
    ELSE IF IsP(ts, r.i, "]") THEN ParseOk(PyList(Append(acc, r.v)), r.i + 1)
    ELSE ParseFail

ParseMembers(ts, i, acc) ==
    IF ~(i <= Len(ts) /\ ts[i].k = "s" /\ IsP(ts, i + 1, ":")) THEN ParseFail
    ELSE LET r == ParseValue(ts, i + 2) IN
      IF ~r.ok THEN ParseFail
      ELSE LET d == (ts[i].v :> r.v) @@ acc IN
        IF IsP(ts, r.i, ",") THEN ParseMembers(ts, r.i + 1, d)
        ELSE IF IsP(ts, r.i, "}") THEN ParseOk(PyDict(d), r.i + 1)
        ELSE ParseFail

\* json.loads: [ok |-> TRUE, v |-> value], or [ok |-> FALSE] for JSONDecodeError
json_loads(text) ==
    LET r == ParseValue(text, 1) IN
    IF r.ok /\ r.i = Len(text) + 1 THEN [ok |-> TRUE, v |-> r.v] ELSE ParseFail

------------------------------------------------------------------------------
(* SQLite column values *)

SqlNull == [null |-> TRUE, text |-> << >>]
SqlText(text) == [null |-> FALSE, text |-> text]

\* the truth value of a column read into Python (None and '' are falsy)
ColTruthy(c) == ~c.null /\ c.text # << >>

------------------------------------------------------------------------------
(* Password hashing (hash_password, verify_password) *)

\* the characters of the passwords and salts of the model, with their hex codes
HexCode ==
    [c \in {"p", "q", "$", "a", "b", "1", "2"} |->
        CASE c = "p" -> "70" [] c = "q" -> "71" [] c = "$" -> "24"
          [] c = "a" -> "61" [] c = "b" -> "62" [] c = "1" -> "31"
          [] c = "2" -> "32"]

\* hashlib.sha256(s.encode()).hexdigest(): a hex string; the digest is modelled
\* as collision free (an injective image of its input)
RECURSIVE sha256_hexdigest(_)
sha256_hexdigest(s) ==
    IF s = "" THEN "h"
    ELSE sha256_hexdigest(SubSeq(s, 1, Len(s) - 1)) \o HexCode[SubSeq(s, Len(s), Len(s))]

\* secrets.token_hex(16) draws the salt; the caller picks it from Salts
hash_password(password, salt) ==
    salt \o "$" \o sha256_hexdigest(salt \o password)

\* positions of the separator in a string
SepPositions(s) == {i \in 1..Len(s) : SubSeq(s, i, i) = "$"}

FirstSep(s) == CHOOSE i \in SepPositions(s) : \A j \in SepPositions(s) : i <= j

\* a verify_password that checks the format of the stored value only
verify_password_format_only(plain, hashed) == SepPositions(hashed) # {}

verify_password(plain, hashed) ==
    IF SepPositions(hashed) = {} THEN FALSE      \* ValueError: not enough values to unpack
    ELSE LET i == FirstSep(hashed)
             salt == SubSeq(hashed, 1, i - 1)
             h == SubSeq(hashed, i + 1, Len(hashed))
         IN sha256_hexdigest(salt \o plain) = h

------------------------------------------------------------------------------
(* JWT (create_tokens, verify_token, get_current_user) *)

\* uuid4(): the n-th identifier drawn
Uuid(n) == "u" \o ToString(n)

\* jwt.encode(payload, key): the claims, and the key that signed them
jwt_encode(payload, key) == payload @@ [key |-> key]

create_tokens(user_id, t) ==
    [access_token |->
        jwt_encode([sub |-> user_id, exp |-> t + JWT_EXPIRY_HOURS, iat |-> t,
                    type |-> "access"], JWT_SECRET),
     refresh_token |->
        jwt_encode([sub |-> user_id,
                    exp |-> t + REFRESH_TOKEN_EXPIRY_DAYS * HoursPerDay, iat |-> t,
                    type |-> "refresh"], JWT_SECRET),
     token_type |-> "bearer",
     user_id |-> user_id]

HTTPException(status, detail) == [status |-> status, detail |-> detail]

\* a jwt.decode that does not verify the signature
jwt_decode_unverified(token, key, t) == ~(token.exp < t)

\* a jwt.decode that does not look at exp
jwt_decode_no_exp(token, key, t) == token.key = key

\* jwt.decode(token, key) at time t: the signature must verify and the token must
\* not be expired (python-jose raises ExpiredSignatureError when exp < now)
jwt_decode_ok(token, key, t) == token.key = key /\ ~(token.exp < t)

\* verify_token: [ok |-> TRUE, user_id |-> sub] or [ok |-> FALSE, exc |-> HTTPException]
verify_token(token, t) ==
    IF ~jwt_decode_ok(token, JWT_SECRET, t)
    THEN [ok |-> FALSE, exc |-> HTTPException(401, "Invalid or expired token")]
    ELSE IF token.sub = ""
    THEN [ok |-> FALSE, exc |-> HTTPException(401, "Invalid token")]
    ELSE [ok |-> TRUE, user_id |-> token.sub]

\* the Authorization header: absent, or a scheme and a token
NoHeader == [scheme |-> "none"]
Bearer(token) == [scheme |-> "Bearer", token |-> token]

get_current_user(authorization, t) ==
    IF authorization.scheme # "Bearer"
    THEN [ok |-> FALSE, exc |-> HTTPException(401, "Missing authorization")]
    ELSE verify_token(authorization.token, t)

------------------------------------------------------------------------------
(* Table users *)

Row(user_id, email, password_hash, created_at, flags, data) ==
    [user_id |-> user_id, email |-> email, password_hash |-> password_hash,
     created_at |-> created_at, onboarding_flags |-> flags, onboarding_data |-> data]

RowsByEmail(db, email) == {r \in db : r.email = email}
RowsById(db, user_id) == {r \in db : r.user_id = user_id}

\* PRIMARY KEY (user_id) and UNIQUE (email): whether the INSERT is accepted
InsertAllowed(db, row) ==
    /\ RowsById(db, row.user_id) = {}
    /\ RowsByEmail(db, row.email) = {}

Flags(q, tone, brief) ==
    PyDict([k \in {"completed_questionnaire", "selected_tone", "reviewed_brief"} |->
              CASE k = "completed_questionnaire" -> PyBool(q)
                [] k = "selected_tone" -> PyBool(tone)
                [] k = "reviewed_brief" -> PyBool(brief)])

\* an update that merges the new mapping into the stored one
UpdateOnboarding_merge(db, user_id, data, flags) ==
    {IF r.user_id = user_id
       THEN [r EXCEPT
               !.onboarding_data =
                  IF ColTruthy(r.onboarding_data) /\ json_loads(r.onboarding_data.text).ok
                  THEN SqlText(json_dumps(PyDict(json_loads(data.text).v.d
                                                 @@ json_loads(r.onboarding_data.text).v.d)))
                  ELSE data,
               !.onboarding_flags = flags]
       ELSE r : r \in db}

\* an update without its WHERE clause: every row is written
UpdateOnboarding_every_row(db, user_id, data, flags) ==
    {[r EXCEPT !.onboarding_data = data, !.onboarding_flags = flags] : r \in db}

\* UPDATE users SET onboarding_data = ?, onboarding_flags = ? WHERE user_id = ?
UpdateOnboarding(db, user_id, data, flags) ==
    {IF r.user_id = user_id
       THEN [r EXCEPT !.onboarding_data = data, !.onboarding_flags = flags]
       ELSE r : r \in db}

\* a lookup that answers corrupt JSON with an empty mapping
get_user_onboarding_empty_on_corrupt(db, user_id) ==
    LET rows == RowsById(db, user_id) IN
    IF rows = {} THEN PyNone
    ELSE LET row == CHOOSE r \in rows : TRUE IN
      IF ~ColTruthy(row.onboarding_data) THEN PyNone
      ELSE LET j == json_loads(row.onboarding_data.text) IN
        IF j.ok THEN j.v ELSE EmptyDict

\* get_user_onboarding: the stored mapping, or None
get_user_onboarding(db, user_id) ==
    LET rows == RowsById(db, user_id) IN
    IF rows = {} THEN PyNone
    ELSE LET row == CHOOSE r \in rows : TRUE IN
      IF ~ColTruthy(row.onboarding_data) THEN PyNone
      ELSE LET j == json_loads(row.onboarding_data.text) IN
        IF j.ok THEN j.v ELSE PyNone

------------------------------------------------------------------------------
(* Responses *)

\* AuthResponse / SessionResponse / DataEnvelopeResponse: {ok, data, meta}
Envelope(data) == [ok |-> TRUE, data |-> data, meta |-> [trace_id |-> "uuid4"]]

Ok200(data) == [status |-> 200, body |-> Envelope(data)]

\* an exception no handler catches: the server answers 500
Crash == [status |-> 500, detail |-> "Internal Server Error"]

Raise(exc) == [status |-> exc.status, detail |-> exc.detail]

\* an f-string: its template and the values substituted into it
Fmt(tpl, args) == [tpl |-> tpl, args |-> args]

\* the territory sequence of the brief builders:
\* ob.get("content_territories", ob.get("core_ideas", []))
TopicsOf(ob) == Get(ob, "content_territories", Get(ob, "core_ideas", EmptyList))

------------------------------------------------------------------------------
(* The personalized builders, as functions of get_user_onboarding's result.   *)
(* Timestamps and fresh ids of the payloads are left out.                     *)

hub_today_personal(ob) ==
    LET positioning == Get(ob, "positioning_target", PyStr("your expertise"))
        topics == TopicsOf(ob)
        audience == Get(ob, "audience_description", PyStr("your audience"))
        core == Get(ob, "core_ideas", EmptyList)
        first_topic == IF Truthy(topics) THEN PyIndex(topics, 0) ELSE PyStr("your core topic")
        raises ==
            \/ Truthy(topics) /\ ~CanIndex(topics, 0)       \* topics[0]
            \/ ~HasLen(topics)                              \* len(topics) > 1
            \/ PyLen(topics) > 1 /\ ~CanIndex(topics, 1)    \* topics[1]
            \/ ~CanSlice(core)                              \* ob.get("core_ideas", [])[:3]
            \/ Truthy(topics) /\ ~CanSlice(topics)          \* topics[:3], topics[:2]
            \/ ~HasLen(core)                                \* len(ob.get("core_ideas", []))
    IN IF raises THEN Crash
       ELSE Ok200(
         [personalized |-> TRUE,
          brief |->
            [topic |-> first_topic,
             angle |-> Fmt("Reinforce your positioning in {}", << positioning >>),
             hook |-> Fmt("Share your perspective on {}", << first_topic >>),
             supporting_claims |-> PySlice(core, 3),
             rationale |-> Fmt("This reinforces your authority in {} for {}",
                               << positioning, audience >>)],
          strategy_snapshot |->
            [positioning |-> positioning,
             recommended_focus |->
                IF Truthy(topics) THEN PySlice(topics, 3)
                ELSE PyList(<< PyStr("Define your territories") >>),
             active_signals |->
                LET src == IF Truthy(topics) THEN Items(PySlice(topics, 2))
                           ELSE << PyStr("your positioning") >>
                IN [i \in 1..Len(src) |-> Fmt("Reinforce {}", << src[i] >>)],
             territory_coverage |->
                IF Truthy(topics) THEN Min(PyLen(topics) * 15, 100) ELSE 0],
          memory_state |->
            [total_territories |-> IF Truthy(topics) THEN PyLen(topics) ELSE 0,
             active_claims |-> PyLen(core),
             reinforcement_count |-> 0]])

hub_today_default ==
    Ok200(
      [personalized |-> FALSE,
       brief |->
         [topic |-> PyStr("Complete your brand setup"),
          angle |-> Fmt("Get started", << >>),
          hook |-> Fmt("Set up your brand identity", << >>),
          supporting_claims |-> EmptyList,
          rationale |-> Fmt("Complete onboarding", << >>)],
       strategy_snapshot |->
         [positioning |-> PyStr("Not yet configured"),
          recommended_focus |-> PyList(<< PyStr("Complete brand setup") >>),
          active_signals |-> << >>,
          territory_coverage |-> 0],
       memory_state |->
         [total_territories |-> 0, active_claims |-> 0, reinforcement_count |-> 0]])

\* ob.get(...) on a value that is no dict raises AttributeError
get_hub_today(ob) ==
    IF ~Truthy(ob) THEN hub_today_default
    ELSE IF ob.t # "dict" THEN Crash
    ELSE hub_today_personal(ob)

get_brief(ob) ==
    IF ~Truthy(ob) THEN
      Ok200([topic |-> PyStr("Set up your brand"),
             subtopic |-> PyStr("Getting started"),
             supporting_claims |-> EmptyList,
             key_messages |-> PyList(<< PyStr("Complete your brand setup to get started") >>)])
    ELSE IF ob.t # "dict" THEN Crash
    ELSE
      LET positioning == Get(ob, "positioning_target", PyStr("your expertise"))
          topics == TopicsOf(ob)
          core == Get(ob, "core_ideas", EmptyList)
          raises ==
              \/ Truthy(topics) /\ ~CanIndex(topics, 0)     \* topics[0]
              \/ ~CanSlice(core)                            \* ob.get("core_ideas", [])[:3]
      IN IF raises THEN Crash
         ELSE Ok200([topic |-> IF Truthy(topics) THEN PyIndex(topics, 0) ELSE positioning,
                     subtopic |-> positioning,
                     supporting_claims |-> core,
                     key_messages |-> PySlice(core, 3)])

get_memory_state(ob) ==
    IF ~Truthy(ob) THEN
      Ok200([territories |-> << >>, total_territories |-> 0, total_claims |-> 0,
             total_reinforcements |-> 0])
    ELSE IF ob.t # "dict" THEN Crash
    ELSE
      LET topics == TopicsOf(ob)
          core == Get(ob, "core_ideas", EmptyList)
          raises ==
              \/ ~CanSlice(topics)                          \* topics[:6]
              \/ ~HasLen(core)                              \* len(ob.get("core_ideas", []))
          chosen == Items(PySlice(topics, 6))
          territories ==
              [i \in 1..Len(chosen) |->
                 [id |-> i, name |-> chosen[i], claims_count |-> 0,
                  reinforcement_score |-> 0]]
      IN IF raises THEN Crash
         ELSE Ok200([territories |-> territories,
                     total_territories |-> Len(territories),
                     total_claims |-> PyLen(core),
                     total_reinforcements |-> 0])

get_reinforcement_counts(ob) ==
    IF ~Truthy(ob) THEN
      Ok200([weekly |-> 0, monthly |-> 0, all_time |-> 0, by_territory |-> {}])
    ELSE IF ob.t # "dict" THEN Crash
    ELSE
      LET ct == Get(ob, "content_territories", EmptyList)
          chosen == Items(PySlice(ct, 6))
          raises ==
              \/ ~CanSlice(ct)                              \* [...][:6]
              \/ \E i \in DOMAIN chosen : ~Hashable(chosen[i])   \* by_territory[t] = 0
      IN IF raises THEN Crash
         ELSE Ok200([weekly |-> 0, monthly |-> 0, all_time |-> 0,
                     by_territory |-> {chosen[i] : i \in DOMAIN chosen}])

get_territory_coverage(ob) ==
    IF ~Truthy(ob) THEN Ok200([coverage_percentage |-> 0, territories |-> << >>])
    ELSE IF ob.t # "dict" THEN Crash
    ELSE
      LET ct == Get(ob, "content_territories", EmptyList)
          chosen == Items(PySlice(ct, 6))
      IN IF ~CanSlice(ct) THEN Crash                        \* [...][:6]
         ELSE Ok200([coverage_percentage |-> 0,
                     territories |->
                        [i \in 1..Len(chosen) |-> [name |-> chosen[i], coverage |-> 0]]])

\* round(100 / n) for n >= 1: Python rounds a tie to the even neighbour
Round100Over(n) ==
    LET q == 100 \div n
        r == 100 % n
    IN IF 2 * r < n THEN q
       ELSE IF 2 * r > n THEN q + 1
       ELSE IF q % 2 = 0 THEN q ELSE q + 1

\* the territory sequence of the strategy builder: ob.get("content_territories", [])
StrategyTopics(ob) == Get(ob, "content_territories", EmptyList)

get_strategy(ob) ==
    IF ~Truthy(ob) THEN
      Ok200([positioning |-> PyStr("Not yet configured"),
             target_audience |-> PyStr("Complete brand setup"),
             recommended_focus |-> EmptyList,
             active_signals |-> << >>,
             territory_allocation |-> {},
             messaging_pillars |-> EmptyList])
    ELSE IF ob.t # "dict" THEN Crash
    ELSE
      LET positioning == Get(ob, "positioning_target", PyStr("your expertise"))
          audience == Get(ob, "audience_description", PyStr("your audience"))
          topics == StrategyTopics(ob)
          core_ideas == Get(ob, "core_ideas", EmptyList)
          five == Items(PySlice(topics, 5))
          four == Items(PySlice(core_ideas, 4))
          raises ==
              \/ Truthy(topics) /\ ~CanSlice(topics)        \* topics[:3]
              \/ ~CanSlice(core_ideas)                      \* core_ideas[:4], [:3]
              \/ ~CanSlice(topics)                          \* topics[:5]
              \/ \E i \in DOMAIN five : ~Hashable(five[i])  \* {t: ...}
      IN IF raises THEN Crash
         ELSE Ok200([positioning |-> positioning,
                     target_audience |-> audience,
                     recommended_focus |->
                        IF Truthy(topics) THEN PySlice(topics, 3) ELSE EmptyList,
                     active_signals |->
                        [i \in 1..Len(four) |-> Fmt("Reinforce: {}", << four[i] >>)],
                     territory_allocation |->
                        {[name |-> five[i], share |-> Round100Over(Max(PyLen(topics), 1))]
                           : i \in DOMAIN five},
                     messaging_pillars |-> PySlice(core_ideas, 3)])

get_voice_profile(ob) ==
    IF ~Truthy(ob) THEN Ok200([tone_markers |-> << >>, boundaries |-> EmptyList])
    ELSE IF ob.t # "dict" THEN Crash
    ELSE
      LET voice_style == Get(ob, "voice_style", PyStr("Professional"))
          ib == Get(ob, "integrity_boundaries", EmptyDict)
      IN IF ib.t # "dict" THEN Crash                        \* (...).get("values_protect", [])
         ELSE Ok200([tone_markers |->
                        << voice_style, PyStr("Authentic"), PyStr("Strategic") >>,
                     boundaries |-> Get(ib, "values_protect", EmptyList)])

generate_draft(ob) ==
    IF ~Truthy(ob) THEN
      Ok200([title |-> Fmt("Draft: {}", << PyStr("Set up your brand") >>),
             content |-> Fmt("Complete your brand setup", << >>),
             territories_covered |-> EmptyList])
    ELSE IF ob.t # "dict" THEN Crash
    ELSE
      LET positioning == Get(ob, "positioning_target", PyStr("your expertise"))
          topics == TopicsOf(ob)
          core_ideas == Get(ob, "core_ideas", EmptyList)
          ct == Get(ob, "content_territories", EmptyList)
          first_topic == IF Truthy(topics) THEN PyIndex(topics, 0) ELSE positioning
          three == Items(PySlice(core_ideas, 3))
          raises ==
              \/ Truthy(topics) /\ ~CanIndex(topics, 0)         \* topics[0]
              \/ Truthy(core_ideas) /\ ~CanSlice(core_ideas)    \* core_ideas[:3]
              \/ ~CanSlice(ct)                                  \* [...][:3]
      IN IF raises THEN Crash
         ELSE Ok200([title |->
                        Fmt("Draft: {}",
                            << Get(ob, "positioning_target", PyStr("Your Topic")) >>),
                     content |->
                        Fmt("Here's a draft focused on {} ... {} ... {}",
                            << first_topic, positioning,
                               [i \in 1..Len(three) |-> Fmt("- {}", << three[i] >>)] >>),
                     territories_covered |-> PySlice(ct, 3)])

------------------------------------------------------------------------------
(* coach_chat *)

UpperAlpha == "ABCDEFGHIJKLMNOPQRSTUVWXYZ"
LowerAlpha == "abcdefghijklmnopqrstuvwxyz"

LowerChar(c) ==
    IF \E i \in 1..Len(UpperAlpha) : SubSeq(UpperAlpha, i, i) = c
    THEN LET i == CHOOSE i \in 1..Len(UpperAlpha) : SubSeq(UpperAlpha, i, i) = c
         IN SubSeq(LowerAlpha, i, i)
    ELSE c

\* str.lower()
RECURSIVE Lower(_)
Lower(s) ==
    IF s = "" THEN ""
    ELSE Lower(SubSeq(s, 1, Len(s) - 1)) \o LowerChar(SubSeq(s, Len(s), Len(s)))

\* kw in s
Contains(s, kw) ==
    \E i \in 1..(Len(s) - Len(kw) + 1) : SubSeq(s, i, i + Len(kw) - 1) = kw

Suggestions == << "Review your brief", "Check memory coverage", "Refine strategy focus" >>

coach_chat(ob, msg, context) ==
    LET message == Lower(msg)
        ctx == IF Truthy(context) THEN context ELSE EmptyDict   \* req.context or {}
        reply(text) == Ok200([message |-> text, suggestions |-> Suggestions,
                              context |-> ctx])
    IN
    IF ~Truthy(ob) THEN reply(Fmt("Welcome to Plinth!", << >>))
    ELSE IF ob.t # "dict" THEN Crash
    ELSE
      LET positioning == Get(ob, "positioning_target", PyStr("your expertise"))
          topics == Get(ob, "content_territories", EmptyList)
          core_ideas == Get(ob, "core_ideas", EmptyList)
          three == Items(PySlice(topics, 3))
      IN
      IF Contains(message, "brief")
      THEN reply(Fmt("Your current focus is on reinforcing your positioning in {}",
                     << positioning >>))
      ELSE IF Contains(message, "memory") \/ Contains(message, "reinforce")
      THEN IF ~HasLen(topics) \/ ~HasLen(core_ideas) THEN Crash   \* len(...)
           ELSE reply(Fmt("You have {} territories and {} core ideas configured",
                          << PyLen(topics), PyLen(core_ideas) >>))
      ELSE IF Contains(message, "strategy")
      THEN reply(Fmt("Your positioning as an authority in {}", << positioning >>))
      ELSE IF Truthy(topics)
                /\ (\/ ~CanSlice(topics)                           \* topics[:3]
                    \/ \E i \in DOMAIN three : three[i].t # "str") \* ", ".join(...)
      THEN Crash
      ELSE reply(Fmt("I'm here to help you build authority in {}. Your territories include {}",
                     << positioning,
                        IF Truthy(topics) THEN three ELSE << PyStr("your key topics") >> >>))

------------------------------------------------------------------------------
(* /api/v2/auth/me: the payload is returned bare, not in the envelope *)

get_me(db, user_id) ==
    LET rows == RowsById(db, user_id) IN
    IF rows = {} THEN Raise(HTTPException(404, "User not found"))
    ELSE LET row == CHOOSE r \in rows : TRUE
             loaded == IF ColTruthy(row.onboarding_data)
                         THEN json_loads(row.onboarding_data.text)
                         ELSE ParseFail
         IN [status |-> 200,
             body |-> [user_id |-> row.user_id,
                       email |-> row.email,
                       created_at |-> row.created_at,
                       onboarding_completed |-> loaded.ok,
                       onboarding_data |-> IF loaded.ok THEN loaded.v ELSE PyNone]]

------------------------------------------------------------------------------
(* Inputs of the model *)

Emails == {"a@x.com", "b@x.com"}
Passwords == {"p", "p$"}
Salts == {"a1", "b2"}

Payload1 ==
    PyDict(("positioning_target" :> PyStr("AI Ethics"))
           @@ ("core_ideas" :> PyList(<< PyStr("X"), PyStr("Y") >>)))

Payload2 ==
    PyDict(("content_territories" :>
               PyList(<< PyStr("T1"), PyStr("T2"), PyStr("T3"), PyStr("T4") >>))
           @@ ("core_ideas" :> EmptyList)
           @@ ("integrity_boundaries" :>
                 PyDict("values_protect" :> PyList(<< PyStr("honesty") >>))))

Payload3 == PyDict("content_territories" :> PyNone)

\* request bodies of /api/v2/onboarding/complete: absent, empty, or a mapping
Bodies == {PyNone, EmptyDict, Payload1, Payload2, Payload3}

Messages == {"BRIEF memory", "strategy and Memory brief", "Reinforce strategy",
             "Strategy", "hello"}
Contexts == {PyNone, PyDict("voice_style" :> PyStr("v"))}

\* the time steps the clock may take, in hours
TickSteps == {1, JWT_EXPIRY_HOURS, REFRESH_TOKEN_EXPIRY_DAYS * HoursPerDay}

\* a token signed with another key
Forged(t) ==
    jwt_encode([sub |-> Uuid(1), exp |-> t + JWT_EXPIRY_HOURS, iat |-> t,
                type |-> "access"], "attacker-key")

IssuedTokens == {e.tok : e \in issued}

\* the tokens a client may present
Presentable == IssuedTokens \cup {Forged(now)}

\* the Authorization headers a client may send
Headers == {NoHeader} \cup {Bearer(tok) : tok \in Presentable}

\* bodies of the questionnaire and tone endpoints
PublicBodies ==
    {PyNone,
     PyDict([topics |-> PyList(<< PyStr("T1") >>),
             tone_markers |-> PyList(<< PyStr("warm") >>)])}

Slots == 1..MaxInflight

Idle == [st |-> "idle"]

------------------------------------------------------------------------------
(* The state machine *)

Init ==
    /\ users = {}
    /\ now = 0
    /\ ticks = 0
    /\ uuids = 0
    /\ issued = {}
    /\ regs = [s \in Slots |-> Idle]
    /\ writes = [s \in Slots |-> Idle]
    /\ last = [op |-> "init"]
    /\ regPw = [e \in {} |-> ""]
    /\ completed = {}

\* the clock advances
Tick(d) ==
    /\ ticks < MaxTicks
    /\ now' = now + d
    /\ ticks' = ticks + 1
    /\ last' = [op |-> "tick"]
    /\ UNCHANGED <<users, uuids, issued, regs, writes, regPw, completed>>

\* the model keeps at most MaxPairs issued token pairs
CanIssue == Cardinality(issued) < 2 * MaxPairs

Issue(tokens, user_id) ==
    issued \cup {[tok |-> tokens.access_token, for |-> user_id],
                 [tok |-> tokens.refresh_token, for |-> user_id]}

\* no connection holds SQLite's write lock (an UPDATE executed, not yet committed);
\* a writing statement of another connection waits for it
WriteLockFree == \A s \in Slots : writes[s].st # "executed"

\* register, up to its SELECT: the email is taken (400) or the request goes on
RegisterSelect(slot, email, password) ==
    /\ regs[slot] = Idle
    /\ IF RowsByEmail(users, email) # {}
       THEN /\ last' = [op |-> "register", email |-> email, password |-> password,
                        existed |-> TRUE,
                        resp |-> Raise(HTTPException(400, "User already exists"))]
            /\ regs' = regs
       ELSE /\ last' = [op |-> "register_select", email |-> email]
            /\ regs' = [regs EXCEPT ![slot] =
                          [st |-> "checked", email |-> email, password |-> password]]
    /\ UNCHANGED <<writes, users, now, ticks, uuids, issued, regPw, completed>>

\* register, from uuid4() on: INSERT, commit, create_tokens.  An INSERT the
\* UNIQUE constraint refuses raises sqlite3.IntegrityError, which nothing catches.
RegisterInsert(slot, salt) ==
    /\ regs[slot] # Idle
    /\ WriteLockFree
    /\ uuids < MaxUuids
    /\ CanIssue
    /\ LET req == regs[slot]
           user_id == Uuid(uuids + 1)
           row == Row(user_id, req.email, hash_password(req.password, salt), now,
                      SqlText(json_dumps(Flags(FALSE, FALSE, FALSE))), SqlNull)
           tokens == create_tokens(user_id, now)
       IN
       /\ uuids' = uuids + 1
       /\ regs' = [regs EXCEPT ![slot] = Idle]
       /\ IF InsertAllowed(users, row)
          THEN /\ users' = users \cup {row}
               /\ issued' = Issue(tokens, user_id)
               /\ regPw' = (req.email :> req.password) @@ regPw
               /\ last' = [op |-> "register", email |-> req.email,
                           password |-> req.password, existed |-> FALSE,
                           resp |-> Ok200(tokens)]
          ELSE /\ last' = [op |-> "register", email |-> req.email,
                           password |-> req.password,
                           existed |-> RowsByEmail(users, req.email) # {},
                           resp |-> Crash]
               /\ UNCHANGED <<users, issued, regPw>>
    /\ UNCHANGED <<writes, now, ticks, completed>>

Login(email, password) ==
    /\ CanIssue
    /\ LET rows == RowsByEmail(users, email)
           row == CHOOSE r \in rows : TRUE
       IN
       IF rows = {} \/ ~verify_password(password, row.password_hash)
       THEN /\ last' = [op |-> "login", email |-> email, password |-> password,
                        resp |-> Raise(HTTPException(401, "Invalid credentials"))]
            /\ issued' = issued
       ELSE LET tokens == create_tokens(row.user_id, now) IN
            /\ last' = [op |-> "login", email |-> email, password |-> password,
                        resp |-> Ok200(tokens)]
            /\ issued' = Issue(tokens, row.user_id)
    /\ UNCHANGED <<users, now, ticks, uuids, regs, writes, regPw, completed>>

Refresh(tok) ==
    /\ CanIssue
    /\ LET v == verify_token(tok, now) IN
       IF ~v.ok
       THEN /\ last' = [op |-> "refresh", tok |-> tok, resp |-> Raise(v.exc)]
            /\ issued' = issued
       ELSE LET tokens == create_tokens(v.user_id, now) IN
            /\ last' = [op |-> "refresh", tok |-> tok, resp |-> Ok200(tokens)]
            /\ issued' = Issue(tokens, tok.sub)
    /\ UNCHANGED <<users, now, ticks, uuids, regs, writes, regPw, completed>>

\* the user_id Depends(get_current_user) hands to the handler ("" when it raised)
CallerId(hdr) ==
    LET a == get_current_user(hdr, now) IN IF a.ok THEN a.user_id ELSE ""

\* ob = get_user_onboarding(user_id) for the caller
CallerOb(hdr) == get_user_onboarding(users, CallerId(hdr))

\* a handler behind Depends(get_current_user) that only reads; resp is the
\* handler's answer for the caller, and the response records the caller
Reads(op, hdr, resp) ==
    /\ LET a == get_current_user(hdr, now) IN
       last' = IF a.ok
               THEN [op |-> op, user |-> a.user_id, resp |-> resp]
               ELSE [op |-> op, resp |-> Raise(a.exc)]
    /\ UNCHANGED <<users, now, ticks, uuids, issued, regs, writes, regPw, completed>>

GetMe(hdr) == Reads("me", hdr, get_me(users, CallerId(hdr)))

\* a check that refuses the absent body only (`if data is None`)
BodyMissing_none_only(data) == data = PyNone

\* history: the keys of the mapping stored for the user before the request
KeysBefore(user_id) ==
    LET ob == get_user_onboarding(users, user_id)
    IN IF ob.t = "dict" THEN DOMAIN ob.d ELSE {}

\* `if not data`: the body is absent or empty
BodyMissing(data) == ~Truthy(data)

CompleteOnboarding(hdr, data) ==
    /\ LET a == get_current_user(hdr, now) IN
       IF ~a.ok
       THEN /\ last' = [op |-> "complete_onboarding", resp |-> Raise(a.exc)]
            /\ UNCHANGED <<users, completed>>
       ELSE IF BodyMissing(data)
       THEN /\ last' = [op |-> "complete_onboarding", user |-> a.user_id, data |-> data,
                        before |-> KeysBefore(a.user_id),
                        resp |-> Raise(HTTPException(400, "No calibration data provided"))]
            /\ UNCHANGED <<users, completed>>
       ELSE /\ WriteLockFree
            /\ users' = UpdateOnboarding(users, a.user_id, SqlText(json_dumps(data)),
                                         SqlText(json_dumps(Flags(TRUE, TRUE, FALSE))))
            /\ completed' = completed \cup {a.user_id}
            /\ last' = [op |-> "complete_onboarding", user |-> a.user_id, data |-> data,
                        before |-> KeysBefore(a.user_id),
                        resp |-> Ok200([saved |-> TRUE, onboarding_completed |-> TRUE])]
    /\ UNCHANGED <<now, ticks, uuids, issued, regs, writes, regPw>>

\* complete_onboarding, request by request in flight: up to the body check
\* (401, 400, or the request goes on to the database)
OnboardingBegin(slot, hdr, data) ==
    /\ writes[slot] = Idle
    /\ LET a == get_current_user(hdr, now) IN
       IF ~a.ok
       THEN /\ last' = [op |-> "complete_onboarding", resp |-> Raise(a.exc)]
            /\ writes' = writes
       ELSE IF BodyMissing(data)
       THEN /\ last' = [op |-> "complete_onboarding", user |-> a.user_id, data |-> data,
                        before |-> KeysBefore(a.user_id),
                        resp |-> Raise(HTTPException(400, "No calibration data provided"))]
            /\ writes' = writes
       ELSE /\ last' = [op |-> "complete_onboarding_begin", user |-> a.user_id]
            /\ writes' = [writes EXCEPT ![slot] =
                             [st |-> "checked", user |-> a.user_id, data |-> data]]
    /\ UNCHANGED <<users, now, ticks, uuids, issued, regs, regPw, completed>>

\* cursor.execute(UPDATE ...): the connection takes the write lock; the change
\* stays in its transaction until the commit
OnboardingExecute(slot) ==
    /\ writes[slot].st = "checked"
    /\ WriteLockFree
    /\ writes' = [writes EXCEPT ![slot].st = "executed"]
    /\ last' = [op |-> "complete_onboarding_execute", user |-> writes[slot].user]
    /\ UNCHANGED <<users, now, ticks, uuids, issued, regs, regPw, completed>>

\* cursor.execute(UPDATE ...) while another connection holds the write lock
\* past the connection's busy timeout: sqlite3.OperationalError (database is
\* locked), which nothing catches
OnboardingBusy(slot) ==
    /\ writes[slot].st = "checked"
    /\ ~WriteLockFree
    /\ writes' = [writes EXCEPT ![slot] = Idle]
    /\ last' = [op |-> "complete_onboarding", user |-> writes[slot].user,
                data |-> writes[slot].data, before |-> KeysBefore(writes[slot].user),
                resp |-> Crash]
    /\ UNCHANGED <<users, now, ticks, uuids, issued, regs, regPw, completed>>

\* db.commit(), db.close() and the acknowledgement
OnboardingCommit(slot) ==
    /\ writes[slot].st = "executed"
    /\ LET req == writes[slot] IN
       /\ users' = UpdateOnboarding(users, req.user, SqlText(json_dumps(req.data)),
                                    SqlText(json_dumps(Flags(TRUE, TRUE, FALSE))))
       /\ completed' = completed \cup {req.user}
       /\ last' = [op |-> "complete_onboarding", user |-> req.user, data |-> req.data,
                   before |-> KeysBefore(req.user),
                   resp |-> Ok200([saved |-> TRUE, onboarding_completed |-> TRUE])]
    /\ writes' = [writes EXCEPT ![slot] = Idle]
    /\ UNCHANGED <<now, ticks, uuids, issued, regs, regPw>>

HubToday(hdr) ==
    Reads("hub_today", hdr, get_hub_today(CallerOb(hdr)))

Brief(hdr) ==
    Reads("hub_brief", hdr, get_brief(CallerOb(hdr)))

MemoryState(hdr) ==
    Reads("memory_state", hdr, get_memory_state(CallerOb(hdr)))

ReinforcementCounts(hdr) ==
    Reads("reinforcement_counts", hdr,
          get_reinforcement_counts(CallerOb(hdr)))

TerritoryCoverage(hdr) ==
    Reads("territory_coverage", hdr,
          get_territory_coverage(CallerOb(hdr)))

Strategy(hdr) ==
    Reads("strategy", hdr, get_strategy(CallerOb(hdr)))

VoiceProfile(hdr) ==
    Reads("voice_profile", hdr, get_voice_profile(CallerOb(hdr)))

GenerateDraft(hdr) ==
    Reads("drafts_generate", hdr, generate_draft(CallerOb(hdr)))

\* the response records the caller and req.message
CoachChat(hdr, msg, context) ==
    /\ LET a == get_current_user(hdr, now) IN
       last' = IF a.ok
               THEN [op |-> "coach_chat", user |-> a.user_id, message |-> msg,
                     resp |-> coach_chat(CallerOb(hdr), msg, context)]
               ELSE [op |-> "coach_chat", resp |-> Raise(a.exc)]
    /\ UNCHANGED <<users, now, ticks, uuids, issued, regs, writes, regPw, completed>>

\* the endpoints that take no token
Public(op, resp) ==
    /\ last' = [op |-> op, resp |-> resp]
    /\ UNCHANGED <<users, now, ticks, uuids, issued, regs, writes, regPw, completed>>

\* data.get(key, default) if data else default
BodyGet(data, key, default) == IF Truthy(data) THEN Get(data, key, default) ELSE default

SaveQuestionnaire(data) ==
    Public("save_questionnaire",
           Ok200([saved |-> TRUE,
                  questionnaire_id |-> "uuid4",
                  topics |-> BodyGet(data, "topics", EmptyList),
                  positioning |-> BodyGet(data, "positioning", PyStr(""))]))

SaveTone(data) ==
    Public("save_tone",
           Ok200([saved |-> TRUE,
                  tone_markers |-> BodyGet(data, "tone_markers", EmptyList),
                  boundaries |-> BodyGet(data, "boundaries", EmptyList)]))

GetSession ==
    Public("session",
           Ok200([user_id |-> "uuid4",
                  email |-> "user@example.com",
                  onboarding_flags |-> Flags(FALSE, FALSE, FALSE),
                  created_at |-> now]))

GetChatContext ==
    Public("chat_context",
           Ok200([current_brief |-> [topic |-> "Your brand strategy", angle |-> "Personalized"],
                  recent_territories |-> << >>,
                  message_history_count |-> 0,
                  conversation_context |-> "Strategic coaching session"]))

ValidateDraft ==
    Public("drafts_validate",
           Ok200([is_valid |-> TRUE,
                  tone_alignment_score |-> 0,
                  brief_alignment_score |-> 0,
                  territory_coverage_score |-> 0,
                  issues |-> << >>,
                  suggestions |-> << "Continue building your content library" >>]))

\* /health returns {"status": "healthy"}, not a response model
HealthCheck == Public("health", [status |-> 200, body |-> [status |-> "healthy"]])

\* complete_onboarding requests in flight together, over the given bodies
WriterStep(bodies, slots) ==
    \/ \E s \in slots, hdr \in Headers, data \in bodies : OnboardingBegin(s, hdr, data)
    \/ \E s \in slots : OnboardingExecute(s)
    \/ \E s \in slots : OnboardingBusy(s)
    \/ \E s \in slots : OnboardingCommit(s)

\* the endpoints without a token, over the given bodies
PublicStep(bodies) ==
    \/ \E data \in bodies : SaveQuestionnaire(data)
    \/ \E data \in bodies : SaveTone(data)
    \/ GetSession
    \/ GetChatContext
    \/ ValidateDraft
    \/ HealthCheck

\* registration and login, over the given inputs
AccountStep(emails, passwords, salts, slots) ==
    \/ \E s \in slots, e \in emails, p \in passwords : RegisterSelect(s, e, p)
    \/ \E s \in slots, salt \in salts : RegisterInsert(s, salt)
    \/ \E e \in emails, p \in passwords : Login(e, p)

\* the clock and the handlers that take a token
TokenStep(steps) ==
    \/ \E d \in steps : Tick(d)
    \/ \E tok \in Presentable : Refresh(tok)
    \/ \E hdr \in Headers : GetMe(hdr)

\* the onboarding handlers
OnboardingStep(bodies) ==
    \/ \E hdr \in Headers, data \in bodies : CompleteOnboarding(hdr, data)
    \/ \E hdr \in Headers : HubToday(hdr)

\* the other personalized builders
BuilderStep(messages, contexts) ==
    \/ \E hdr \in Headers : Brief(hdr)
    \/ \E hdr \in Headers : MemoryState(hdr)
    \/ \E hdr \in Headers : ReinforcementCounts(hdr)
    \/ \E hdr \in Headers : TerritoryCoverage(hdr)
    \/ \E hdr \in Headers : Strategy(hdr)
    \/ \E hdr \in Headers : VoiceProfile(hdr)
    \/ \E hdr \in Headers : GenerateDraft(hdr)
    \/ \E hdr \in Headers, m \in messages, c \in contexts : CoachChat(hdr, m, c)

\* Every handler, with one password, one salt and registrations one at a time.
Next ==
    \/ AccountStep(Emails, {"p"}, {"a1"}, {1})
    \/ TokenStep(TickSteps)
    \/ OnboardingStep({PyNone, Payload1, Payload3})
    \/ BuilderStep({"hello"}, {PyNone})
    \/ PublicStep(PublicBodies)

Spec == Init /\ [][Next]_vars

\* Registration and login with concurrent registrations, every password and salt.
NextAccounts == AccountStep(Emails, Passwords, Salts, Slots)

SpecAccounts == Init /\ [][NextAccounts]_vars

\* Tokens over time, with logins, refreshes and onboarding writes in between.
NextTokens ==
    \/ AccountStep(Emails, {"p"}, {"a1"}, {1})
    \/ TokenStep(TickSteps)
    \/ \E hdr \in Headers : CompleteOnboarding(hdr, Payload1)

SpecTokens == Init /\ [][NextTokens]_vars

\* Onboarding writes and reads, with every request body.
NextOnboarding ==
    \/ AccountStep(Emails, {"p"}, {"a1"}, {1})
    \/ OnboardingStep(Bodies)
    \/ \E hdr \in Headers : GetMe(hdr)

SpecOnboarding == Init /\ [][NextOnboarding]_vars

------------------------------------------------------------------------------
(* The builders over mappings of every shape *)

Absent == [t |-> "absent"]

TerritoryShapes ==
    {Absent, PyNone, PyNum(5), PyStr("ab"), EmptyList,
     PyList(<< PyStr("T1"), PyStr("T2"), PyStr("T3"), PyStr("T4") >>),
     PyList(<< PyNum(1) >>)}

IdeaShapes ==
    {Absent, PyNone, PyStr("ab"), EmptyList, PyList(<< PyStr("X"), PyStr("Y") >>),
     PyList(<< PyStr("I1"), PyStr("I2"), PyStr("I3"), PyStr("I4"), PyStr("I5") >>)}

BoundaryShapes ==
    {Absent, PyNone, PyDict("values_protect" :> PyList(<< PyStr("honesty") >>))}

PositioningShapes == {Absent, PyStr("AI Ethics")}

\* the mapping with the keys that are not Absent
Mapping(pt, ct, ci, ib) ==
    LET all == ("positioning_target" :> pt) @@ ("content_territories" :> ct)
               @@ ("core_ideas" :> ci) @@ ("integrity_boundaries" :> ib)
    IN PyDict([k \in {k \in DOMAIN all : all[k] # Absent} |-> all[k]])

WideBodies ==
    {Mapping(pt, ct, ci, Absent) :
        pt \in PositioningShapes, ct \in TerritoryShapes, ci \in IdeaShapes}
    \cup {Mapping(PyStr("AI Ethics"), Absent, Absent, ib) : ib \in BoundaryShapes}

\* One account, complete_onboarding requests interleaving, reads in between.
NextWriters ==
    \/ AccountStep({"a@x.com"}, {"p"}, {"a1"}, {1})
    \/ WriterStep({PyNone, Payload1, Payload2}, Slots)
    \/ \E hdr \in Headers : GetMe(hdr)

SpecWriters == Init /\ [][NextWriters]_vars

\* Two accounts, registrations racing, logins and onboarding writes.
NextFrame ==
    \/ AccountStep(Emails, {"p"}, {"a1"}, Slots)
    \/ OnboardingStep({PyNone, Payload1, Payload2})

SpecFrame == Init /\ [][NextFrame]_vars

\* One user, every shape of request body, every personalized endpoint.
NextBuilders ==
    \/ AccountStep({"a@x.com"}, {"p"}, {"a1"}, {1})
    \/ OnboardingStep(WideBodies)
    \/ BuilderStep(Messages, Contexts)

SpecBuilders == Init /\ [][NextBuilders]_vars

------------------------------------------------------------------------------
(* The lookup over a database file that an earlier run left behind *)

CorruptTexts ==
    {<< P("{") >>,
     << P("{"), StrTok("core_ideas"), P(":"), P("[") >>,
     << Lit("nul") >>,
     json_dumps(Payload1) \o << P("}") >>}

\* contents of column onboarding_data
StoredColumns ==
    {SqlNull, SqlText(<< >>)}
    \cup {SqlText(t) : t \in CorruptTexts}
    \cup {SqlText(json_dumps(Payload1))}

InitLookup ==
    /\ \E col \in StoredColumns :
          users = {Row(Uuid(1), "a@x.com", hash_password("p", "a1"), 0,
                       SqlText(json_dumps(Flags(FALSE, FALSE, FALSE))), col)}
    /\ now = 0
    /\ ticks = 0
    /\ uuids = 1
    /\ issued = {}
    /\ regs = [s \in Slots |-> Idle]
    /\ writes = [s \in Slots |-> Idle]
    /\ last = [op |-> "init"]
    /\ regPw = ("a@x.com" :> "p")
    /\ completed = {}

NextLookup ==
    \/ AccountStep(Emails, {"p"}, {"a1"}, {1})
    \/ OnboardingStep({PyNone, Payload1, Payload2})
    \/ \E hdr \in Headers : GetMe(hdr)
    \/ \E hdr \in Headers : Brief(hdr)
    \/ \E hdr \in Headers : Strategy(hdr)

SpecLookup == InitLookup /\ [][NextLookup]_vars

------------------------------------------------------------------------------
(* Claims *)

Authenticated == "user" \in DOMAIN last

\* C1: a register request that ends while another row already holds its email
\* answers 400 "User already exists" (the Conflict condition) and creates no
\* row, and no two rows of users share an email.
C1_DuplicateRegisterConflicts ==
    /\ \A r1, r2 \in users : r1.email = r2.email => r1 = r2
    /\ (last.op = "register" /\ last.existed) =>
          /\ last.resp.status = 400
          /\ Cardinality(RowsByEmail(users, last.email)) = 1

\* C2: refresh answers 401 to a validly signed, unexpired token of type
\* "access"; it issues a pair only for a token of type "refresh".
C2_RefreshRejectsAccessToken ==
    (last.op = "refresh" /\ last.tok.key = JWT_SECRET /\ now <= last.tok.exp
       /\ last.tok.type # "refresh")
    => last.resp.status = 401

\* C3: every issued token authenticates as the user it was issued for at every
\* time before its exp and is answered 401 at every time after it; a request
\* is authenticated only by such a token; the pair refresh issues carries the
\* subject of the token presented.
C3_TokenValidUntilExpiry ==
    /\ \A e \in issued :
          LET a == get_current_user(Bearer(e.tok), now) IN
          /\ now < e.tok.exp => a.ok /\ a.user_id = e.for
          /\ now > e.tok.exp => ~a.ok /\ a.exc.status = 401
    /\ (last.op = "me" /\ Authenticated) =>
          \E e \in issued : e.for = last.user /\ now <= e.tok.exp
    /\ (last.op = "refresh" /\ last.resp.status = 200) =>
          /\ last.resp.body.data.access_token.sub = last.tok.sub
          /\ last.resp.body.data.refresh_token.sub = last.tok.sub
          /\ last.resp.body.data.user_id = last.tok.sub

\* /api/v2/auth/me accepted a token issued earlier while another issued token
\* has expired, after an onboarding write
C3_Witness ==
    /\ last.op = "me" /\ Authenticated /\ last.resp.status = 200
    /\ completed # {}
    /\ \E e1, e2 \in issued :
          /\ e1.for = last.user /\ e1.tok.iat < now /\ now < e1.tok.exp
          /\ e2.for = last.user /\ now > e2.tok.exp

\* the credentials of a login are those of a registration
KnownCredentials(email, password) == email \in DOMAIN regPw /\ regPw[email] = password

\* C4: login answers 401, issues nothing and leaves users alone when the email
\* has no row or the password is not the registered one; otherwise it issues a
\* pair for the user_id of the email's row.
C4_LoginChecksCredentials ==
    [][last'.op = "login" =>
         IF KnownCredentials(last'.email, last'.password)
         THEN /\ last'.resp.status = 200
              /\ \E r \in users :
                    /\ r.email = last'.email
                    /\ last'.resp.body.data.user_id = r.user_id
                    /\ last'.resp.body.data.access_token.sub = r.user_id
                    /\ last'.resp.body.data.refresh_token.sub = r.user_id
              /\ users' = users
         ELSE /\ last'.resp.status = 401
              /\ users' = users
              /\ issued' = issued]_vars

\* a login with a registered email and another password was answered 401
C4_Witness ==
    /\ last.op = "login"
    /\ last.email \in DOMAIN regPw
    /\ regPw[last.email] # last.password
    /\ last.resp.status = 401

\* C5: complete_onboarding by an authenticated user with an absent or empty
\* body answers 400 and leaves every row of users as it was.
C5_EmptyBodyRejected ==
    [][(last'.op = "complete_onboarding" /\ "data" \in DOMAIN last'
          /\ last'.data \in {PyNone, EmptyDict})
       => /\ last'.resp.status = 400
          /\ users' = users]_vars

\* an empty body was refused for a user whose stored payload is still there
C5_Witness ==
    /\ last.op = "complete_onboarding" /\ Authenticated
    /\ last.data = EmptyDict
    /\ last.resp.status = 400
    /\ get_user_onboarding(users, last.user) = Payload2

FlagsOf(user_id) ==
    LET row == CHOOSE r \in RowsById(users, user_id) : TRUE
    IN json_loads(row.onboarding_flags.text)

\* C6: after a successful complete_onboarding(u, p) the lookup for u returns
\* exactly p and u's flags are {completed_questionnaire: true, selected_tone:
\* true, reviewed_brief: false}, whatever was stored before.
C6_OverwriteWholesale ==
    (last.op = "complete_onboarding" /\ last.resp.status = 200) =>
       /\ get_user_onboarding(users, last.user) = last.data
       /\ RowsById(users, last.user) # {}
       /\ FlagsOf(last.user).ok
       /\ FlagsOf(last.user).v = Flags(TRUE, TRUE, FALSE)

\* a payload replaced a stored payload that had keys the new one lacks
C6_Witness ==
    /\ last.op = "complete_onboarding" /\ last.resp.status = 200
    /\ last.before = DOMAIN Payload2.d
    /\ last.data = Payload1
    /\ get_user_onboarding(users, last.user) = Payload1

\* the stored mapping of the user of the last request
LastOb == get_user_onboarding(users, last.user)

IsList(v) == v.t = "list"

\* C7: for a stored mapping without content_territories, hub/today, hub/brief
\* and /api/v2/strategy take core_ideas as the territory sequence (topic is
\* core_ideas[0], recommended_focus is core_ideas[:3]); with both keys absent
\* they take the empty sequence and answer 200.
C7_FallbackToCoreIdeas ==
    (/\ last.op \in {"hub_today", "hub_brief", "strategy"}
     /\ Authenticated
     /\ Truthy(LastOb)
     /\ "content_territories" \notin DOMAIN LastOb.d
     /\ IsList(Get(LastOb, "core_ideas", EmptyList)))
    => LET core == Get(LastOb, "core_ideas", EmptyList)
           data == last.resp.body.data
       IN /\ last.resp.status = 200
          /\ (last.op = "hub_today" /\ Truthy(core)) =>
                /\ data.brief.topic = PyIndex(core, 0)
                /\ data.strategy_snapshot.recommended_focus = PySlice(core, 3)
          /\ last.op = "hub_today" =>
                data.memory_state.total_territories = PyLen(core)
          /\ (last.op = "hub_brief" /\ Truthy(core)) =>
                data.topic = PyIndex(core, 0)
          /\ last.op = "strategy" => data.recommended_focus = PySlice(core, 3)

PersonalizedOps ==
    {"hub_today", "hub_brief", "memory_state", "reinforcement_counts",
     "territory_coverage", "strategy", "voice_profile", "drafts_generate", "coach_chat"}

\* C8: whatever non-empty mapping complete_onboarding stored, every
\* authenticated personalized endpoint answers with a typed error or a
\* successful payload, never with an unhandled exception.
C8_BuildersNeverCrash ==
    (last.op \in PersonalizedOps /\ Authenticated) => last.resp.status # 500

\* C9: for every user, until the first successful complete_onboarding
\* /api/v2/auth/me reports onboarding_completed false and /api/hub/today
\* reports personalized false; from then on both report true.
C9_OnboardedGate ==
    \A r \in users :
       LET me == get_me(users, r.user_id)
           hub == get_hub_today(get_user_onboarding(users, r.user_id))
       IN /\ me.status = 200
          /\ me.body.onboarding_completed = (r.user_id \in completed)
          /\ hub.status = 200
          /\ hub.body.data.personalized = (r.user_id \in completed)

UserIds == {r.user_id : r \in users}

IsCorrupt(col) == ColTruthy(col) /\ ~json_loads(col.text).ok

\* C10: get_user_onboarding is a pure lookup: a request that only reads leaves
\* users as it is, the lookup for a user changes only by a successful
\* complete_onboarding of that user, and it returns None for a user who never
\* completed onboarding and for corrupt stored JSON.
C10_PureLookup ==
    [][/\ last'.op \in PersonalizedOps \cup {"me"} => users' = users
       /\ \A u \in UserIds :
             \/ (last'.op = "complete_onboarding" /\ last'.resp.status = 200
                   /\ last'.user = u)
             \/ get_user_onboarding(users', u) = get_user_onboarding(users, u)
       /\ \A r \in users' :
             (r.onboarding_data.null \/ IsCorrupt(r.onboarding_data))
             => get_user_onboarding(users', r.user_id) = PyNone]_vars

\* a builder answered a user whose stored JSON is corrupt with its default payload
C10_Witness ==
    /\ last.op = "hub_today" /\ Authenticated
    /\ \E r \in RowsById(users, last.user) : IsCorrupt(r.onboarding_data)
    /\ last.resp.status = 200
    /\ ~last.resp.body.data.personalized

\* the ordered rule list of the coach: keywords and the reply template they select
CoachRules ==
    << [kws |-> {"brief"},
        tpl |-> "Your current focus is on reinforcing your positioning in {}"],
       [kws |-> {"memory", "reinforce"},
        tpl |-> "You have {} territories and {} core ideas configured"],
       [kws |-> {"strategy"},
        tpl |-> "Your positioning as an authority in {}"] >>

DefaultReply == "I'm here to help you build authority in {}. Your territories include {}"

\* the template of the earliest rule one of whose keywords occurs in the
\* lower-cased message
FirstMatch(m) ==
    LET hits == {i \in 1..Len(CoachRules) :
                    \E k \in CoachRules[i].kws : Contains(Lower(m), k)}
    IN IF hits = {} THEN DefaultReply
       ELSE CoachRules[CHOOSE i \in hits : \A j \in hits : i <= j].tpl

\* C11: an authenticated coach_chat answers 200 with the fixed suggestion
\* list, and for an onboarded user its reply is the template of the earliest
\* rule ("brief", then "memory" or "reinforce", then "strategy", else the
\* default) matching the lower-cased message.
C11_FirstMatchWins ==
    (last.op = "coach_chat" /\ Authenticated) =>
       /\ last.resp.status = 200
       /\ last.resp.body.data.suggestions = Suggestions
       /\ Truthy(LastOb) =>
             last.resp.body.data.message.tpl = FirstMatch(last.message)

\* C12: every response with status 200, of every endpoint, is the envelope
\* {ok, data, meta} whose meta carries a trace_id.
C12_UniformEnvelope ==
    ("resp" \in DOMAIN last /\ last.resp.status = 200) =>
       /\ DOMAIN last.resp.body = {"ok", "data", "meta"}
       /\ "trace_id" \in DOMAIN last.resp.body.meta

\* the row of a user after UPDATE ... SET onboarding_data, onboarding_flags
\* with payload p and the completed flags
Written(r, p) ==
    [r EXCEPT !.onboarding_data = SqlText(json_dumps(p)),
              !.onboarding_flags = SqlText(json_dumps(Flags(TRUE, TRUE, FALSE)))]

\* C13: of complete_onboarding requests in flight together for one user, each
\* one that passed the body check is acknowledged with 200; a row changes only
\* to the payload and the completed flags of one such request, both in the
\* same step, and after each acknowledgement the lookup returns that request's
\* payload (the last writer wins).
C13_LastWriterWins ==
    [][/\ (last'.op = "complete_onboarding" /\ "data" \in DOMAIN last'
             /\ Truthy(last'.data))
          => /\ last'.resp.status = 200
             /\ get_user_onboarding(users', last'.user) = last'.data
       /\ \A r \in users :
             \/ r \in users'
             \/ \E s \in Slots :
                   /\ writes[s].st = "executed" /\ writes[s].user = r.user_id
                   /\ users' = (users \ {r}) \cup {Written(r, writes[s].data)}]_vars

\* login's check on the table: the email has a row and the password verifies
LoginAccepts(db, email, password) ==
    \E r \in RowsByEmail(db, email) : verify_password(password, r.password_hash)

\* C14: a complete_onboarding of user u keeps every row's user_id, email,
\* password_hash and created_at, keeps every other user's row whole, adds and
\* removes no row, and keeps every login's outcome; a register step keeps
\* every existing row.
C14_FrameOfWrites ==
    [][/\ (last'.op = "complete_onboarding" /\ "user" \in DOMAIN last') =>
             /\ Cardinality(users') = Cardinality(users)
             /\ \A r \in users : \E w \in users' :
                   /\ w.user_id = r.user_id
                   /\ w.email = r.email
                   /\ w.password_hash = r.password_hash
                   /\ w.created_at = r.created_at
                   /\ r.user_id # last'.user => w = r
             /\ \A e \in Emails, p \in Passwords :
                   LoginAccepts(users', e, p) = LoginAccepts(users, e, p)
       /\ last'.op \in {"register", "register_select"} => users \subseteq users'
      ]_vars

\* a payload was stored for one user while the other user's row holds a
\* payload of its own
C14_Witness ==
    /\ last.op = "complete_onboarding" /\ last.resp.status = 200
    /\ last.before # {}
    /\ \E r \in users :
          /\ r.user_id # last.user
          /\ ColTruthy(r.onboarding_data)
          /\ get_user_onboarding(users, r.user_id) # last.data

\* C15: every issued token has as subject the user_id of a row of users, the
\* user it was issued for; /api/v2/auth/me answers every issued, unexpired
\* token with 200, never 404; and an acknowledged complete_onboarding has
\* written the row of its user.
C15_TokensHaveRows ==
    /\ \A e \in issued :
          /\ e.tok.sub = e.for
          /\ RowsById(users, e.tok.sub) # {}
          /\ now <= e.tok.exp =>
                LET a == get_current_user(Bearer(e.tok), now)
                IN a.ok /\ get_me(users, a.user_id).status = 200
    /\ (last.op = "me" /\ Authenticated) => last.resp.status = 200
    /\ (last.op = "complete_onboarding" /\ last.resp.status = 200) =>
          \E r \in RowsById(users, last.user) :
             r.onboarding_data = SqlText(json_dumps(last.data))

\* refresh issued a pair, at a later time than the token presented, for a
\* user whose row holds a stored payload
C15_Witness ==
    /\ last.op = "refresh" /\ last.resp.status = 200
    /\ last.tok.iat < now
    /\ last.resp.body.data.access_token.iat = now
    /\ last.tok.sub \in completed
    /\ \E r \in RowsById(users, last.tok.sub) : ColTruthy(r.onboarding_data)

====
